---- MODULE Spec2Model ----
(***************************************************************************)
(* Model of the Timeline of iced-rs/comet (src/src/timeline.rs): a bounded *)
(* event log with two derived indices (updates, update_rate) and backward  *)
(* queries resolved through a Playhead.                                    *)
(***************************************************************************)
EXTENDS Integers, Sequences, FiniteSets, TLC

(***************************************************************************)
(* Bounds of the model.                                                    *)
(***************************************************************************)
\* Timeline::MAX_SIZE is 1_000_000 in the source ("TODO: Make configurable");
\* the model keeps the capacity small so that eviction is reached.
MAX_SIZE == 2

\* Number of operations (push, clear) recorded in one behaviour.
MaxOps == 4

\* Timestamps are whole ticks 0..MaxAt; TicksPerSecond ticks make one
\* UNIX-epoch second.
MaxAt == 2

TicksPerSecond == 2

(***************************************************************************)
(* Events (beacon::Event, as far as the Timeline looks at them).           *)
(***************************************************************************)
Times == 0..MaxAt

\* The fields of span::Span::Update that push copies into a summary.
Payloads ==
    { [number |-> 1, tasks |-> 0, subscriptions |-> 2, duration |-> 10, message |-> "A"],
      [number |-> 2, tasks |-> 1, subscriptions |-> 3, duration |-> 12, message |-> "B"] }

Connected(name, at) == [kind |-> "Connected", name |-> name, at |-> at]

SpanFinished(at, duration, span) ==
    [kind |-> "SpanFinished", at |-> at, duration |-> duration, span |-> span]

UpdateSpan(p) ==
    [variant |-> "Update", number |-> p.number, tasks |-> p.tasks,
     subscriptions |-> p.subscriptions, message |-> p.message]

ViewSpan == [variant |-> "View", window |-> 1]

UpdateEvents == { SpanFinished(at, p.duration, UpdateSpan(p)) : at \in Times, p \in Payloads }

SubscriptionsTracked(at, amount_alive) ==
    [kind |-> "SubscriptionsTracked", at |-> at, amount_alive |-> amount_alive]

OtherEvents ==
    { Connected("a", 0), SpanFinished(1, 5, ViewSpan), SubscriptionsTracked(MaxAt, 3) }

Events == UpdateEvents \cup OtherEvents

\* The pattern  Event::SpanFinished { span: Span::Update { .. }, .. }
IsUpdateSpan(event) ==
    /\ event.kind = "SpanFinished"
    /\ event.span.variant = "Update"

(***************************************************************************)
(* State: the four fields of Timeline, its capacity (Self::MAX_SIZE, fixed *)
(* when the Timeline is created) and a log of the operations applied to it *)
(* (history only; the Timeline never reads it); the last Index computation *)
(* (calc); and the fields of the application (Comet) that decide how it    *)
(* drives the Timeline: state, its playhead, the last command sent to the  *)
(* producer, whether the application still runs, its theme and its screen  *)
(* with the chart caches that hold a drawing; and the events reported to   *)
(* the application so far (handled, history only); and the messages the    *)
(* widgets of the last view have published and the application has not yet *)
(* handled (pending), with the bar the cursor hovers in a chart, if any     *)
(* (bar_hovered, the state of the chart widget).                           *)
(***************************************************************************)
VARIABLES events, updates, update_rate, removed, capacity, log,
          calc,
          state, comet_playhead, command, status,
          theme, screen, handled, pending, bar_hovered,
          sender, receiver, client_run, buffer, wire, listening,
          made, accepted, sends, connections, failures, slept,
          server_state, input, received, emitted

\* The protocol client: the channel of client::connect, the position of
\* run, and its stream.
clientvars ==
    <<sender, receiver, client_run, buffer, wire, listening,
      made, accepted, sends, connections, failures, slept>>

\* The protocol server: the State of server::run and what it has read and
\* emitted.
servervars == <<server_state, input, received, emitted>>

vars == <<events, updates, update_rate, removed, capacity, log,
          calc, state, comet_playhead, command, status,
          theme, screen, handled, pending, bar_hovered,
          clientvars, servervars>>

appvars ==
    <<state, comet_playhead, command, status, theme, screen, handled, pending,
      bar_hovered>>

\* The Timeline as a value: `self` in the methods below.
Timeline ==
    [events |-> events, updates |-> updates,
     update_rate |-> update_rate, removed |-> removed]

\* Timeline::new / Default
new ==
    [events |-> <<>>, updates |-> <<>>, update_rate |-> <<>>, removed |-> 0]

\* No Index computation has been made.
NoCalc == [op |-> "none"]

\* State::Waiting
Waiting == [tag |-> "Waiting"]

\* State::Working { name, connection }: connection is Connection::Connected
\* (connected) or Connection::Disconnected.
Working(name, connected) ==
    [tag |-> "Working", name |-> name, connected |-> connected]

\* No command has been sent to the producer.
NoCommand == [command |-> "none"]

\* The chart caches of a screen (the fields of Overview and of Update).
Caches(tag) ==
    IF tag = "Overview"
    THEN {"update", "view", "layout", "interact", "draw", "present"}
    ELSE {"update", "tasks_spawned", "subscriptions_alive", "message_rate"}

\* Screen::Overview(Overview::new()) and Screen::Update(Update::new()): no
\* cache holds a drawing.
NewScreen(tag) == [tag |-> tag, drawn |-> {}]

\* client::connect: an empty channel whose sender the Client holds, and the
\* thread of run about to call _connect for the first time. Nothing is
\* written, no report is made. (listening, made, accepted, sends,
\* connections, failures and slept are history and environment; run reads
\* none of them.)
ClientIsNew ==
    /\ sender = TRUE
    /\ receiver = <<>>
    /\ client_run = "_connect"
    /\ buffer = <<>>
    /\ wire = <<>>
    /\ listening = FALSE
    /\ made = 0
    /\ accepted = <<>>
    /\ sends = <<>>
    /\ connections = 0
    /\ failures = 0
    /\ slept = 0

\* server::run: stream::unfold starts from State::Disconnected. (received
\* and emitted are history.)
State_Disconnected == [tag |-> "Disconnected"]

ServerIsNew ==
    /\ server_state = State_Disconnected
    /\ input = <<>>
    /\ received = <<>>
    /\ emitted = <<>>

\* Comet::new: Waiting, an empty Timeline, the playhead Live.
AppIsNew ==
    /\ state = Waiting
    /\ comet_playhead = [tag |-> "Live"]
    /\ command = NoCommand
    /\ status = "running"
    /\ theme = [name |-> "CatppuccinMocha"]
    /\ screen = NewScreen("Overview")
    /\ handled = <<>>
    /\ pending = <<>>
    /\ bar_hovered = [some |-> FALSE]
    /\ ClientIsNew
    /\ ServerIsNew

Init ==
    /\ events = new.events
    /\ updates = new.updates
    /\ update_rate = new.update_rate
    /\ removed = new.removed
    /\ capacity = MAX_SIZE
    /\ log = <<>>
    /\ calc = NoCalc
    /\ AppIsNew

\* The step in which the Timeline takes the value `self`.
Becomes(self) ==
    /\ events' = self.events
    /\ updates' = self.updates
    /\ update_rate' = self.update_rate
    /\ removed' = self.removed

len == Len(events)

end_of_no_removed(self) == Len(self.events)

\* Timeline::end on the value `self`
end_of(self) == Len(self.events) + self.removed

end == end_of(Timeline)

range == [start |-> removed, end |-> end]

(***************************************************************************)
(* Index and Playhead.                                                     *)
(***************************************************************************)
\* usize in the model: UsizeBits bits wide.
UsizeBits == 3

UsizeMax == 2^UsizeBits - 1

Usize == 0..UsizeMax

\* The outcome of an Index computation: a value, or a panic.
Value(n) == [panic |-> FALSE, value |-> n]

Overflowed == [panic |-> TRUE, value |-> 0]

\* impl Add<usize> for Index: Self(self.0 + rhs), the outcomes of usize
\* addition. Past usize::MAX it panics when overflow checks are compiled in
\* and wraps around when they are not.
Add(a, rhs) ==
    IF a + rhs <= UsizeMax
    THEN {Value(a + rhs)}
    ELSE {Overflowed, Value((a + rhs) % (UsizeMax + 1))}

\* usize subtraction that wraps around instead of saturating
Sub_wrapping(a, rhs) == (a - rhs) % 65536

\* usize::saturating_sub
Sub(a, rhs) == IF a >= rhs THEN a - rhs ELSE 0

\* #[derive(PartialOrd, Ord)] on struct Index(usize)
cmp(a, b) ==
    IF a < b THEN "Less" ELSE IF a = b THEN "Equal" ELSE "Greater"

Live == [tag |-> "Live"]

Paused(i) == [tag |-> "Paused", index |-> i]

\* A resolution of Live to one past end()
index_live_past_end(playhead) ==
    IF playhead.tag = "Live" THEN end + 1 ELSE playhead.index

index(playhead) ==
    IF playhead.tag = "Live" THEN end ELSE playhead.index

(***************************************************************************)
(* VecDeque helpers.                                                       *)
(***************************************************************************)
pop_back(deque) == IF deque = <<>> THEN <<>> ELSE SubSeq(deque, 1, Len(deque) - 1)

\* VecDeque::pop_front: removes the first element, nothing on an empty deque.
pop_front(deque) == IF deque = <<>> THEN <<>> ELSE Tail(deque)

Reverse(s) == [k \in 1..Len(s) |-> s[Len(s) + 1 - k]]

(***************************************************************************)
(* Timeline::push                                                          *)
(***************************************************************************)
\* SystemTime::duration_since(UNIX_EPOCH).unwrap_or_default().as_secs()
as_secs(at) == IF at < 0 THEN 0 ELSE at \div TicksPerSecond

\* self.updates after the summary append (lines 49-70)
push_updates(self, event) ==
    IF IsUpdateSpan(event)
    THEN Append(self.updates,
                [index |-> end_of(self),
                 message |-> event.span.message,
                 duration |-> event.duration,
                 number |-> event.span.number,
                 tasks |-> event.span.tasks,
                 subscriptions |-> event.span.subscriptions])
    ELSE self.updates

\* A folding that leaves the tail bucket's `at` as it was
push_update_rate_stale_at(self, event) ==
    IF IsUpdateSpan(event)
    THEN LET second == as_secs(event.at)
             n == Len(self.update_rate)
         IN  IF n > 0 /\ self.update_rate[n].second = second
             THEN [self.update_rate EXCEPT ![n].total = @ + 1]
             ELSE Append(self.update_rate,
                         [index |-> end_of(self), at |-> event.at,
                          second |-> second, total |-> 1])
    ELSE self.update_rate

push_update_rate_merging(self, event) ==
    IF IsUpdateSpan(event)
    THEN LET second == as_secs(event.at)
             same == { k \in 1..Len(self.update_rate) :
                         self.update_rate[k].second = second }
         IN  IF same # {}
             THEN LET k == CHOOSE k \in same : \A j \in same : k <= j
                  IN  [self.update_rate EXCEPT ![k].at = event.at,
                                               ![k].total = @ + 1]
             ELSE Append(self.update_rate,
                         [index |-> end_of(self), at |-> event.at,
                          second |-> second, total |-> 1])
    ELSE self.update_rate

\* self.update_rate after the bucket folding (lines 72-90)
push_update_rate(self, event) ==
    IF IsUpdateSpan(event)
    THEN LET second == as_secs(event.at)
             n == Len(self.update_rate)
         IN  IF n > 0 /\ self.update_rate[n].second = second
             THEN [self.update_rate EXCEPT ![n].at = event.at, ![n].total = @ + 1]
             ELSE Append(self.update_rate,
                         [index |-> end_of(self), at |-> event.at,
                          second |-> second, total |-> 1])
    ELSE self.update_rate

overflows_off_by_one(deque) == Len(deque) >= capacity

\* self.events.len() > Self::MAX_SIZE
overflows(deque) == Len(deque) > capacity

evict_updates_never(front, summaries) == summaries

\* self.updates after the eviction of `front` (line 102)
evict_updates(front, summaries) ==
    IF IsUpdateSpan(front) THEN pop_front(summaries) ELSE summaries

evict_update_rate_eager(front, buckets) ==
    IF /\ IsUpdateSpan(front)
       /\ buckets # <<>>
       /\ Head(buckets).at <= front.at
    THEN pop_front(buckets)
    ELSE buckets

\* self.update_rate after the eviction of `front` (lines 104-110)
evict_update_rate(front, buckets) ==
    IF /\ IsUpdateSpan(front)
       /\ buckets # <<>>
       /\ Head(buckets).at < front.at
    THEN pop_front(buckets)
    ELSE buckets

removed_after_update_only(self, front) ==
    IF IsUpdateSpan(front) THEN self.removed + 1 ELSE self.removed

\* self.removed += 1 (line 113), whatever the evicted event is
removed_after(self, front) == self.removed + 1

\* The Timeline after self.push(event)
pushed(self, event) ==
    LET appended == Append(self.events, event)
        summaries == push_updates(self, event)
        buckets == push_update_rate(self, event)
    IN  IF overflows(appended)
        THEN LET front == Head(appended)
             IN  [events |-> pop_front(appended),
                  updates |-> evict_updates(front, summaries),
                  update_rate |-> evict_update_rate(front, buckets),
                  removed |-> removed_after(self, front)]
        ELSE [events |-> appended,
              updates |-> summaries,
              update_rate |-> buckets,
              removed |-> self.removed]

\* The log entry of self.push(event): the index given to the event, and
\* whether the push evicted.
PushEntry(self, event) ==
    [op |-> "push", event |-> event, index |-> end_of(self),
     evicted |-> overflows(Append(self.events, event))]

push(event) ==
    /\ Len(log) < MaxOps
    /\ Becomes(pushed(Timeline, event))
    /\ log' = Append(log, PushEntry(Timeline, event))
    /\ UNCHANGED <<capacity, clientvars, servervars, calc, appvars>>

(***************************************************************************)
(* Timeline::clear                                                         *)
(***************************************************************************)
\* The Timeline after self.clear()
cleared(self) == [self EXCEPT !.events = <<>>]

ClearEntry == [op |-> "clear"]

clear ==
    /\ Len(log) < MaxOps
    /\ Becomes(cleared(Timeline))
    /\ log' = Append(log, ClearEntry)
    /\ UNCHANGED <<capacity, clientvars, servervars, calc, appvars>>

(***************************************************************************)
(* Queries.  A query yields Ok(items), the items in iteration order, or    *)
(* Panicked when the code panics.                                          *)
(***************************************************************************)
Ok(items) == [panic |-> FALSE, items |-> items]

Panicked == [panic |-> TRUE, items |-> <<>>]

\* Positions a playhead can be given: every index up to one past the largest
\* end() a behaviour reaches.
Indices == 0..(MaxOps + 1)

Playheads == {Live} \cup { Paused(i) : i \in Indices }

range_rev_forward(deque, n) ==
    IF n > Len(deque) THEN Panicked ELSE Ok(SubSeq(deque, 1, n))

\* deque.range(0..n).rev(): VecDeque::range panics when n exceeds the length.
range_rev(deque, n) ==
    IF n > Len(deque) THEN Panicked ELSE Ok(Reverse(SubSeq(deque, 1, n)))

seek_unshifted(playhead) == range_rev(events, index(playhead))

seek(playhead) ==
    LET i == Sub(index(playhead), removed)
    IN  range_rev(events, i)

seek_with_index(playhead) ==
    LET i == Sub(index(playhead), removed)
        r == seek(playhead)
    IN  IF r.panic
        THEN Panicked
        ELSE Ok([k \in 1..Len(r.items) |->
                    [index |-> Sub(i, k - 1), event |-> r.items[k]]])

\* span.stage(): the span::Stage of a span (a View span carries its window).
span_stage(span) ==
    IF span.variant = "Update"
    THEN [stage |-> "Update"]
    ELSE [stage |-> "View", id |-> span.window]

\* A conversion that reports every span under Stage::Update
StageFrom_all_update(stage) == "Update"

\* impl From<span::Stage> for chart::Stage
StageFrom(stage) == stage.stage

Stages == {"Update", "View"}

RECURSIVE FilterMap(_, _)
FilterMap(items, stage) ==
    IF items = <<>>
    THEN <<>>
    ELSE LET it == Head(items)
             rest == FilterMap(Tail(items), stage)
         IN  IF /\ it.event.kind = "SpanFinished"
                /\ StageFrom(span_stage(it.event.span)) = stage
             THEN <<[index |-> it.index, at |-> it.event.at,
                     duration |-> it.event.duration]>> \o rest
             ELSE rest

timeframes(playhead, stage) ==
    LET r == seek_with_index(playhead)
    IN  IF r.panic THEN Panicked ELSE Ok(FilterMap(r.items, stage))

IsSorted(deque) ==
    \A i, j \in 1..Len(deque) : i < j => deque[i].index <= deque[j].index

\* A search that ends one past a match: Ok(i) => i + 1
binary_search_by_past_match(deque, target) ==
    LET matches == { j \in 1..Len(deque) : deque[j].index = target }
    IN  IF matches # {}
        THEN matches
        ELSE { Cardinality({ j \in 1..Len(deque) : deque[j].index < target }) }

\* VecDeque::binary_search_by(|x| x.index.cmp(&target)), Ok(i) | Err(i) => i.
\* On a sorted deque: the position of any match, else the insertion point.
\* On a deque that is not sorted the result is unspecified: any position.
binary_search_by(deque, target) ==
    IF IsSorted(deque)
    THEN LET matches == { i - 1 : i \in { j \in 1..Len(deque) : deque[j].index = target } }
         IN  IF matches # {}
             THEN matches
             ELSE { Cardinality({ j \in 1..Len(deque) : deque[j].index < target }) }
    ELSE 0..Len(deque)

\* Timeline::updates: the outcomes the query can have.
Updates(playhead) ==
    { range_rev(updates, start) : start \in binary_search_by(updates, index(playhead)) }

\* Timeline::update_rate: the outcomes the query can have.
UpdateRate(playhead) ==
    { range_rev(update_rate, start) :
        start \in binary_search_by(update_rate, index(playhead)) }

\* The timestamp of the last item of seek instead of the first
time_at_oldest(playhead) ==
    LET r == seek(playhead)
    IN  IF r.panic
        THEN Panicked
        ELSE IF r.items = <<>> THEN Ok(<<>>) ELSE Ok(<<r.items[Len(r.items)].at>>)

\* seek(playhead).next().map(Event::at): no item is None, one item is Some(at).
time_at(playhead) ==
    LET r == seek(playhead)
    IN  IF r.panic
        THEN Panicked
        ELSE IF r.items = <<>> THEN Ok(<<>>) ELSE Ok(<<r.items[1].at>>)


Next ==
    \/ \E event \in Events : push(event)
    \/ clear

Spec == Init /\ [][Next]_vars

\* The same Timeline, created with either capacity: MAX_SIZE, which the
\* behaviours reach, or one that no behaviour reaches (as with the
\* 1_000_000 of the source).
InitCapacities ==
    /\ events = new.events
    /\ updates = new.updates
    /\ update_rate = new.update_rate
    /\ removed = new.removed
    /\ capacity \in {MAX_SIZE, MaxOps}
    /\ log = <<>>
    /\ calc = NoCalc
    /\ AppIsNew

SpecCapacities == InitCapacities /\ [][Next]_vars

(***************************************************************************)
(* Index arithmetic on its own: each step applies one operation of Index   *)
(* to operands drawn from usize and records it in calc.                    *)
(***************************************************************************)
IndexSub ==
    \E a \in Usize, rhs \in Usize :
        calc' = [op |-> "sub", a |-> a, rhs |-> rhs, out |-> Sub(a, rhs)]

IndexAdd ==
    \E a \in Usize, rhs \in Usize :
        \E out \in Add(a, rhs) :
            calc' = [op |-> "add", a |-> a, rhs |-> rhs, out |-> out]

IndexCmp ==
    \E a \in Usize, b \in Usize :
        calc' = [op |-> "cmp", a |-> a, rhs |-> b, out |-> cmp(a, b)]

NextIndex ==
    /\ \/ IndexSub
       \/ IndexAdd
       \/ IndexCmp
    /\ UNCHANGED <<events, updates, update_rate, removed, capacity,
                   clientvars, servervars, log, appvars>>

SpecIndex == Init /\ [][NextIndex]_vars

(***************************************************************************)
(* The application (Comet::update): one action per Message, each the whole *)
(* handler. The application stops handling messages once it has exited or  *)
(* panicked.                                                               *)
(***************************************************************************)
Disconnected(at) == [kind |-> "Disconnected", at |-> at]

QuitRequested(at) == [kind |-> "QuitRequested", at |-> at]

AlreadyRunning(at) == [kind |-> "AlreadyRunning", at |-> at]

ThemeChanged(at, palette) ==
    [kind |-> "ThemeChanged", at |-> at, palette |-> palette]

\* The events the producer reports to the application.
AppEvents ==
    { Connected("a", 0), Connected("b", 0), Disconnected(1), QuitRequested(1),
      AlreadyRunning(0) }
        \cup { SpanFinished(0, p.duration, UpdateSpan(p)) : p \in Payloads }

\* client.go_live() and client.rewind_to(number)
GoLiveCommand == [command |-> "go_live"]

RewindTo(number) == [command |-> "rewind_to", number |-> number]

\* State::Working { connection: Connection::Connected { .. }, .. }
IsConnected == state.tag = "Working" /\ state.connected

needs_reset_always(name) == TRUE

needs_reset_waiting_only(name) == state.tag = "Waiting"

\* Some(&name) != current_name
needs_reset(name) == state.tag = "Waiting" \/ state.name # name

\* The Timeline the event is pushed to: cleared first on a new identity.
timeline_for(event) ==
    IF event.kind = "Connected" /\ needs_reset(event.name)
    THEN cleared(Timeline)
    ELSE Timeline

exits_on_disconnect(event) ==
    event.kind \in {"QuitRequested", "AlreadyRunning", "Disconnected"}

\* The arm that returns iced::exit() before the push.
exits(event) == event.kind \in {"QuitRequested", "AlreadyRunning"}

\* Overview::invalidate, Update::invalidate: every cache is cleared.
invalidate(self) == [self EXCEPT !.drawn = {}]

\* The caches Screen::invalidate_by(event) clears.
cleared_by(tag, event) ==
    CASE event.kind = "ThemeChanged" -> Caches(tag)
      [] tag = "Overview" /\ event.kind = "SpanFinished" ->
            IF event.span.variant = "Update" THEN {"update"}
            ELSE IF event.span.variant = "View" THEN {"view"}
            ELSE {}
      [] tag = "Update" /\ event.kind = "SubscriptionsTracked" ->
            {"subscriptions_alive"}
      [] tag = "Update" /\ IsUpdateSpan(event) ->
            {"update", "tasks_spawned", "message_rate"}
      [] OTHER -> {}

\* Screen::invalidate_by
invalidate_by(self, event) ==
    [self EXCEPT !.drawn = @ \ cleared_by(self.tag, event)]

\* The log entries of the handler's calls on the Timeline, in call order.
entries_for(event) ==
    IF event.kind = "Connected" /\ needs_reset(event.name)
    THEN <<ClearEntry, PushEntry(cleared(Timeline), event)>>
    ELSE <<PushEntry(Timeline, event)>>

EventReported(event) ==
    /\ status = "running"
    /\ handled' = Append(handled, event)
    /\ IF exits(event)
       THEN /\ status' = "exited"
            /\ UNCHANGED <<events, updates, update_rate, removed, log,
                           state, comet_playhead, theme, screen>>
       ELSE /\ Len(handled) < MaxOps
            /\ comet_playhead' =
                  IF event.kind = "Connected" /\ needs_reset(event.name)
                  THEN Live
                  ELSE comet_playhead
            /\ state' =
                  CASE event.kind = "Connected" -> Working(event.name, TRUE)
                    [] event.kind = "Disconnected" /\ state.tag = "Working" ->
                          Working(state.name, FALSE)
                    [] OTHER -> state
            /\ theme' =
                  IF event.kind = "ThemeChanged" /\ state.tag = "Working"
                  THEN [name |-> state.name, palette |-> event.palette]
                  ELSE theme
            /\ screen' = invalidate_by(screen, event)
            /\ Becomes(pushed(timeline_for(event), event))
            /\ log' = log \o entries_for(event)
            /\ UNCHANGED status
    /\ UNCHANGED <<capacity, clientvars, servervars,
                   calc, command, pending, bar_hovered>>

\* Comet::go_live
go_live ==
    /\ command' = IF IsConnected THEN GoLiveCommand ELSE command
    /\ UNCHANGED status

\* The numbers of the Update spans among items, in order.
update_numbers(items) ==
    LET spans == SelectSeq(items, IsUpdateSpan)
    IN  [k \in 1..Len(spans) |-> spans[k].span.number]

\* Comet::rewind
rewind(i) ==
    IF ~IsConnected
    THEN UNCHANGED <<command, status>>
    ELSE LET r == seek(Paused(i))
         IN  IF r.panic
             THEN status' = "panicked" /\ UNCHANGED command
             ELSE /\ command' =
                        IF update_numbers(r.items) # <<>>
                        THEN RewindTo(update_numbers(r.items)[1])
                        ELSE command
                  /\ UNCHANGED status

\* Comet::update_playhead
update_playhead(to) ==
    /\ status = "running"
    /\ comet_playhead' = to
    /\ screen' = invalidate(screen)
    /\ IF to.tag = "Live" THEN go_live ELSE rewind(to.index)
    /\ UNCHANGED <<events, updates, update_rate, removed, capacity,
                   clientvars, servervars, log, calc, state, theme, handled>>

PlayheadChanged(i) ==
    /\ update_playhead(Paused(i))
    /\ UNCHANGED <<pending, bar_hovered>>

TogglePause ==
    /\ update_playhead(IF comet_playhead.tag = "Live" THEN Paused(end) ELSE Live)
    /\ UNCHANGED <<pending, bar_hovered>>

Previous ==
    /\ update_playhead(IF comet_playhead.tag = "Live"
                       THEN Paused(end)
                       ELSE Paused(Sub(comet_playhead.index, 1)))
    /\ UNCHANGED <<pending, bar_hovered>>

reaches_end_strict(next) == next > end

\* index + 1 >= self.timeline.end()
reaches_end(next) == next >= end

\* The playhead Message::Next moves a paused playhead to, next = index + 1.
next_playhead(next) == IF reaches_end(next) THEN Live ELSE Paused(next)

Message_Next ==
    /\ IF comet_playhead.tag = "Live"
       THEN update_playhead(Live)
       ELSE \E next \in Add(comet_playhead.index, 1) :
               IF next.panic
               THEN /\ status = "running"
                    /\ status' = "panicked"
                    /\ UNCHANGED <<events, updates, update_rate, removed,
                                   capacity, clientvars, servervars,
                                   log, calc, state, comet_playhead,
                                   command, theme, screen, handled>>
               ELSE update_playhead(next_playhead(next.value))
    /\ UNCHANGED <<pending, bar_hovered>>

GoLive ==
    /\ update_playhead(Live)
    /\ UNCHANGED <<pending, bar_hovered>>

NextApp ==
    \/ \E event \in AppEvents : EventReported(event)
    \/ \E i \in Indices : PlayheadChanged(i)
    \/ TogglePause
    \/ Previous
    \/ Message_Next
    \/ GoLive

SpecApp == Init /\ [][NextApp]_vars

(***************************************************************************)
(* The screens and their chart caches: the application handles reported    *)
(* events, switches between the Overview and the Update screen, pauses and *)
(* resumes, and between two messages the charts of the screen may be       *)
(* drawn, which fills their caches.                                        *)
(***************************************************************************)
ScreenEvents ==
    { Connected("a", 0), Connected("b", 0), SpanFinished(1, 5, ViewSpan),
      SubscriptionsTracked(MaxAt, 3), ThemeChanged(0, "dark") }
        \cup { SpanFinished(p.number - 1, p.duration, UpdateSpan(p)) : p \in Payloads }

ShowOverview ==
    /\ status = "running"
    /\ screen' = NewScreen("Overview")
    /\ UNCHANGED <<events, updates, update_rate, removed, capacity,
                   clientvars, servervars, log, calc,
                   state, comet_playhead, command, status, theme, handled,
                   pending, bar_hovered>>

ShowUpdate ==
    /\ status = "running"
    /\ screen' = NewScreen("Update")
    /\ UNCHANGED <<events, updates, update_rate, removed, capacity,
                   clientvars, servervars, log, calc,
                   state, comet_playhead, command, status, theme, handled,
                   pending, bar_hovered>>

\* BarChart::draw for every chart of the screen: self.cache.draw(..) keeps
\* the drawing until the cache is cleared.
Draw ==
    /\ status = "running"
    /\ state.tag = "Working"
    /\ screen.drawn # Caches(screen.tag)
    /\ screen' = [screen EXCEPT !.drawn = Caches(screen.tag)]
    /\ UNCHANGED <<events, updates, update_rate, removed, capacity,
                   clientvars, servervars, log, calc,
                   state, comet_playhead, command, status, theme, handled,
                   pending, bar_hovered>>

NextScreen ==
    \/ \E event \in ScreenEvents : EventReported(event)
    \/ ShowOverview
    \/ ShowUpdate
    \/ Draw
    \/ TogglePause

SpecScreen == Init /\ [][NextScreen]_vars

(***************************************************************************)
(* Messages of the widgets: the slider and the bar charts of the last view *)
(* publish a message that carries an Index read from the Timeline as it    *)
(* was in that view; the application handles it later, after the messages  *)
(* that were ahead of it.                                                  *)
(***************************************************************************)
MaxPending == 1

\* The indices of the items of the outcomes that did not panic.
IndicesOf(outcomes) ==
    UNION { { r.items[k].index : k \in 1..Len(r.items) } :
              r \in { o \in outcomes : ~o.panic } }

\* The indices of the datapoints of the charts of the screen.
HoverableIndices ==
    IF screen.tag = "Overview"
    THEN IndicesOf({ timeframes(comet_playhead, stage) : stage \in Stages })
    ELSE IndicesOf(Updates(comet_playhead) \cup UpdateRate(comet_playhead))

\* slider(self.timeline.range(), .., Message::PlayheadChanged)
SliderMoved(i) ==
    /\ status = "running"
    /\ state.tag = "Working"
    /\ Len(pending) < MaxPending
    /\ range.start <= i /\ i <= range.end
    /\ pending' = Append(pending, [message |-> "PlayheadChanged", index |-> i])
    /\ UNCHANGED <<events, updates, update_rate, removed, capacity,
                   clientvars, servervars, log, calc,
                   state, comet_playhead, command, status, theme, screen,
                   handled, bar_hovered>>

\* Option<timeline::Index>, the State of a BarChart
None == [some |-> FALSE]

Some(i) == [some |-> TRUE, index |-> i]

\* BarChart::update with the cursor over a bar that was not hovered before:
\* the chart clears its cache and publishes Interaction::Hovered(index)
BarHovered(i) ==
    /\ status = "running"
    /\ state.tag = "Working"
    /\ Len(pending) < MaxPending
    /\ i \in HoverableIndices
    /\ Some(i) # bar_hovered
    /\ bar_hovered' = Some(i)
    /\ \E chart \in Caches(screen.tag) :
          screen' = [screen EXCEPT !.drawn = @ \ {chart}]
    /\ pending' = Append(pending, [message |-> "Hovered", index |-> i])
    /\ UNCHANGED <<events, updates, update_rate, removed, capacity,
                   clientvars, servervars, log, calc,
                   state, comet_playhead, command, status, theme, handled>>

\* BarChart::update with the cursor outside the chart after a bar was
\* hovered: publishes Interaction::Unhovered
BarUnhovered ==
    /\ status = "running"
    /\ state.tag = "Working"
    /\ Len(pending) < MaxPending
    /\ bar_hovered # None
    /\ bar_hovered' = None
    /\ pending' = Append(pending, [message |-> "Unhovered"])
    /\ UNCHANGED <<events, updates, update_rate, removed, capacity,
                   clientvars, servervars, log, calc,
                   state, comet_playhead, command, status, theme, screen,
                   handled>>

\* Message::PlayheadChanged(index), taken from the pending messages
PendingPlayheadChanged ==
    /\ pending # <<>>
    /\ Head(pending).message = "PlayheadChanged"
    /\ update_playhead(Paused(Head(pending).index))
    /\ pending' = Tail(pending)
    /\ UNCHANGED bar_hovered

\* Message::Chart(Interaction::Hovered(index)), taken from the pending
\* messages: interact_with_chart calls self.rewind(index)
PendingChartHovered ==
    /\ pending # <<>>
    /\ Head(pending).message = "Hovered"
    /\ status = "running"
    /\ rewind(Head(pending).index)
    /\ pending' = Tail(pending)
    /\ UNCHANGED <<events, updates, update_rate, removed, capacity,
                   clientvars, servervars, log, calc,
                   state, comet_playhead, theme, screen, handled, bar_hovered>>

\* Message::Chart(Interaction::Unhovered), taken from the pending messages:
\* interact_with_chart calls self.go_live()
PendingChartUnhovered ==
    /\ pending # <<>>
    /\ Head(pending).message = "Unhovered"
    /\ status = "running"
    /\ go_live
    /\ pending' = Tail(pending)
    /\ UNCHANGED <<events, updates, update_rate, removed, capacity,
                   clientvars, servervars, log, calc,
                   state, comet_playhead, theme, screen, handled, bar_hovered>>

NextStale ==
    \/ \E event \in AppEvents : EventReported(event)
    \/ \E i \in Indices : SliderMoved(i)
    \/ \E i \in Indices : BarHovered(i)
    \/ BarUnhovered
    \/ PendingPlayheadChanged
    \/ PendingChartHovered
    \/ PendingChartUnhovered

SpecStale == Init /\ [][NextStale]_vars


(***************************************************************************)
(* Definitions the properties use to read the history off the log.         *)
(***************************************************************************)
Pushes == { k \in 1..Len(log) : log[k].op = "push" }

Clears == { k \in 1..Len(log) : log[k].op = "clear" }

NoClear == Clears = {}

LastOp == IF log = <<>> THEN [op |-> "new"] ELSE log[Len(log)]

\* The events pushed so far, in push order (meaningful when NoClear).
Pushed == [k \in 1..Len(log) |-> log[k].event]

Evictions == Cardinality({ k \in Pushes : log[k].evicted })

(***************************************************************************)
(* C1: one call to push increases end() by exactly 1, when it evicts       *)
(* nothing (len grows by 1, removed stays) and when it evicts the oldest   *)
(* event (len stays at MAX_SIZE, removed grows by 1).                      *)
(***************************************************************************)
C1_PushAdvancesEnd ==
    [][\A event \in Events :
          push(event) =>
              /\ end' = end + 1
              /\ len < MAX_SIZE => (len' = len + 1 /\ removed' = removed)
              /\ len = MAX_SIZE => (len' = MAX_SIZE /\ removed' = removed + 1)]_vars

\* A push has just evicted an event that is not an Update span.
C1_Witness ==
    /\ LastOp.op = "push"
    /\ LastOp.evicted
    /\ end = LastOp.index + 1
    /\ len = MAX_SIZE
    /\ removed > 0
    /\ \E k \in Pushes : ~IsUpdateSpan(log[k].event) /\ log[k].index = removed - 1

(***************************************************************************)
(* C2: after every push events.len() <= MAX_SIZE; a push evicts only when  *)
(* the append made the length exceed MAX_SIZE, and then exactly one event, *)
(* the oldest; push is possible for every event in every state.            *)
(***************************************************************************)
C2_BoundedEviction ==
    /\ [](len <= MAX_SIZE)
    /\ [](Len(log) < MaxOps => \A event \in Events : ENABLED push(event))
    /\ [][\A event \in Events :
            push(event) =>
                events' = IF Len(events) + 1 > MAX_SIZE
                          THEN Tail(Append(events, event))
                          ELSE Append(events, event)]_vars

\* A push into a full Timeline has evicted the oldest event.
C2_Witness ==
    /\ LastOp.op = "push"
    /\ LastOp.evicted
    /\ len = MAX_SIZE
    /\ events[MAX_SIZE] = LastOp.event

(***************************************************************************)
(* C3: from a fresh Timeline, after MAX_SIZE + k pushes (k > 0) and no     *)
(* clear, len() = MAX_SIZE, range() starts at Index(k) and the retained    *)
(* events are the last MAX_SIZE pushed events in push order.               *)
(***************************************************************************)
C3_EvictionBound ==
    (NoClear /\ Len(log) > MAX_SIZE) =>
        LET k == Len(log) - MAX_SIZE
        IN  /\ len = MAX_SIZE
            /\ range.start = k
            /\ events = SubSeq(Pushed, k + 1, Len(log))

\* Two events more than the capacity have been pushed, of different kinds.
C3_Witness ==
    /\ NoClear
    /\ Len(log) = MAX_SIZE + 2
    /\ range.start = 2
    /\ events[1] # events[MAX_SIZE]

(***************************************************************************)
(* C4: range() is [Index(removed), Index(removed + len)] with lower bound  *)
(* <= upper bound, end() is its upper bound, and removed is the number of  *)
(* events evicted by push since creation: it changes only by +1, in an     *)
(* evicting push.                                                          *)
(***************************************************************************)
C4_RangeAndRemoved ==
    /\ [](/\ range.start = removed
          /\ range.end = removed + len
          /\ range.start <= range.end
          /\ end = range.end
          /\ removed = Evictions)
    /\ [][removed' # removed =>
            /\ removed' = removed + 1
            /\ \E event \in Events : push(event) /\ Len(events) + 1 > MAX_SIZE]_vars

\* Events were evicted, then the Timeline was cleared: removed is kept.
C4_Witness ==
    /\ LastOp.op = "clear"
    /\ removed > 0
    /\ Evictions = removed
    /\ range = [start |-> removed, end |-> removed]

(***************************************************************************)
(* C5 (as stated): over any sequence of push and clear operations, the     *)
(* Index given to a pushed event (end() just before the push) is greater   *)
(* than the Index given to every earlier pushed event.                     *)
(***************************************************************************)
C5_IndexNeverReused ==
    \A i, j \in Pushes : i < j => log[i].index < log[j].index

(***************************************************************************)
(* C5 (amended): the Index given to a pushed event is greater than the     *)
(* Index given to every earlier event pushed since the most recent clear;  *)
(* clear takes end() back to removed, so indices are assigned again.       *)
(***************************************************************************)
C5_IndexIncreasesBetweenClears ==
    \A i, j \in Pushes :
        (i < j /\ ~\E c \in Clears : i < c /\ c < j) => log[i].index < log[j].index

\* Pushes on both sides of a clear: the first push after the clear is given
\* an index that was already given, the next one a greater index.
C5_Witness ==
    \E c \in Clears :
        /\ \E i, j \in Pushes : i < c /\ c < j /\ log[j].index <= log[i].index
        /\ \E i, j \in Pushes : c < i /\ i < j /\ log[i].index < log[j].index

(***************************************************************************)
(* C6: on a fresh Timeline, after N <= MAX_SIZE pushes, seek(Live) yields  *)
(* exactly the N pushed events, newest first.                              *)
(***************************************************************************)
C6_SeekLiveReversed ==
    (NoClear /\ Len(log) <= MAX_SIZE) => seek(Live) = Ok(Reverse(Pushed))

\* MAX_SIZE events, the first unlike the last, and seek(Live) starts with
\* the last one.
C6_Witness ==
    /\ NoClear
    /\ Len(log) = MAX_SIZE
    /\ Pushed[1] # Pushed[MAX_SIZE]
    /\ seek(Live).items[1] = Pushed[MAX_SIZE]

(***************************************************************************)
(* C7: for removed <= i <= end(), seek(Paused(i)) yields exactly           *)
(* i - removed events: the retained events with logical indices i-1, i-2,  *)
(* ..., removed, in that order (the event of logical index n is stored at  *)
(* position n - removed, and without a clear it is the n-th pushed event,  *)
(* counting from 0).                                                       *)
(***************************************************************************)
C7_SeekPausedBefore ==
    \A i \in removed..end :
        LET r == seek(Paused(i))
        IN  /\ ~r.panic
            /\ Len(r.items) = i - removed
            /\ \A k \in 1..(i - removed) :
                  /\ r.items[k] = events[(i - k) - removed + 1]
                  /\ NoClear => r.items[k] = Pushed[(i - k) + 1]

\* After evictions, a playhead strictly inside the range yields the events
\* before it and leaves out a newer one.
C7_Witness ==
    /\ removed > 0
    /\ \E i \in (removed + 1)..(end - 1) :
          /\ seek(Paused(i)).items # <<>>
          /\ Len(seek(Paused(i)).items) = i - removed
          /\ events[len] # seek(Paused(i)).items[1]

(***************************************************************************)
(* C8: for every playhead within range(), the k-th item (k = 0, 1, ...) of *)
(* seek_with_index is paired with the resolved playhead index minus k,     *)
(* also after events have been evicted.                                    *)
(***************************************************************************)
C8_PairedWithLogicalIndex ==
    \A playhead \in Playheads :
        (removed <= index(playhead) /\ index(playhead) <= end) =>
            LET r == seek_with_index(playhead)
            IN  /\ ~r.panic
                /\ \A k \in 1..Len(r.items) :
                      r.items[k].index = index(playhead) - (k - 1)

(***************************************************************************)
(* C9: a query with Paused(i), i > end(), behaves as if the playhead were  *)
(* clamped to end(): seek, seek_with_index, timeframes and time_at do not  *)
(* panic and return what they return for Live.                             *)
(***************************************************************************)
C9_StalePlayheadClamped ==
    \A i \in Indices :
        i > end =>
            /\ ~seek(Paused(i)).panic
            /\ seek(Paused(i)) = seek(Live)
            /\ seek_with_index(Paused(i)) = seek_with_index(Live)
            /\ \A stage \in Stages :
                  timeframes(Paused(i), stage) = timeframes(Live, stage)
            /\ time_at(Paused(i)) = time_at(Live)

Before(deque, i) == SelectSeq(deque, LAMBDA x : x.index < i)

Numbers(items) == [k \in 1..Len(items) |-> items[k].number]

\* The scenario of the specification: Connected, Update #1, Update #2,
\* SubscriptionsTracked pushed onto a fresh Timeline, none evicted.
Scenario ==
    /\ NoClear
    /\ removed = 0
    /\ Len(log) = 4
    /\ log[1].event.kind = "Connected"
    /\ IsUpdateSpan(log[2].event) /\ log[2].event.span.number = 1
    /\ IsUpdateSpan(log[3].event) /\ log[3].event.span.number = 2
    /\ log[4].event.kind = "SubscriptionsTracked"

C11_UpdatesBeforePlayhead ==
    NoClear =>
        /\ \A playhead \in Playheads :
              /\ Updates(playhead) =
                    {Ok(Reverse(Before(updates, index(playhead))))}
              /\ UpdateRate(playhead) =
                    {Ok(Reverse(Before(update_rate, index(playhead))))}
        /\ Scenario => \A r \in Updates(Live) : ~r.panic /\ Numbers(r.items) = <<2, 1>>

\* The scenario, and a playhead paused on Update #2, which yields #1 only.
C11_Witness ==
    /\ Scenario
    /\ \A r \in Updates(Live) : Numbers(r.items) = <<2, 1>>
    /\ \A r \in Updates(Paused(2)) : Numbers(r.items) = <<1>>
    /\ \E r \in UpdateRate(Live) : r.items # <<>>

(***************************************************************************)
(* C12: after every push of a push-only sequence (evicting or not), the    *)
(* updates sequence is in one-to-one correspondence with the retained      *)
(* Update-span events: one summary per such event, in order, with the      *)
(* event's logical index (removed + position) and its number, tasks,       *)
(* subscriptions, duration and message; with capacity + 1 Update events    *)
(* pushed, updates(Live) yields only the summaries of the last capacity.   *)
(***************************************************************************)
SummaryOf(event, i) ==
    [index |-> i, number |-> event.span.number, tasks |-> event.span.tasks,
     subscriptions |-> event.span.subscriptions, duration |-> event.duration,
     message |-> event.span.message]

RECURSIVE SummariesOf(_, _)
SummariesOf(deque, first) ==
    IF deque = <<>>
    THEN <<>>
    ELSE (IF IsUpdateSpan(Head(deque))
          THEN <<SummaryOf(Head(deque), first)>>
          ELSE <<>>) \o SummariesOf(Tail(deque), first + 1)

C12_SummariesMatchRetained ==
    NoClear =>
        /\ updates = SummariesOf(events, removed)
        /\ (Len(log) = capacity + 1 /\ \A k \in Pushes : IsUpdateSpan(log[k].event)) =>
              Updates(Live) =
                  {Ok(Reverse(SummariesOf(SubSeq(Pushed, 2, capacity + 1), 1)))}

\* capacity + 1 Update events were pushed: the first was evicted with its
\* summary, and the retained ones differ in their payload.
C12_Witness ==
    /\ NoClear
    /\ Len(log) = capacity + 1
    /\ \A k \in Pushes : IsUpdateSpan(log[k].event)
    /\ removed = 1
    /\ Len(updates) = capacity
    /\ updates[1].index = 1
    /\ updates[1].number # updates[2].number

(***************************************************************************)
(* C13: in a push-only sequence without eviction, pushing an Update-span   *)
(* event whose whole second equals the tail bucket's second adds 1 to that *)
(* bucket's total and sets its at to the event's timestamp; otherwise it   *)
(* appends a bucket with total 1; other events leave update_rate as it is. *)
(* Three Update events in one second and one in the next give totals       *)
(* [3, 1], and the totals sum to the number of Update-span events pushed.  *)
(***************************************************************************)
SecondOf(event) == event.at \div TicksPerSecond

RECURSIVE SumTotals(_)
SumTotals(buckets) ==
    IF buckets = <<>> THEN 0 ELSE Head(buckets).total + SumTotals(Tail(buckets))

Totals(buckets) == [k \in 1..Len(buckets) |-> buckets[k].total]

UpdatePushes == { k \in Pushes : IsUpdateSpan(log[k].event) }

\* Three Update events of one second, then one of the next second.
ThreeThenOne ==
    /\ NoClear
    /\ removed = 0
    /\ Len(log) = 4
    /\ UpdatePushes = 1..4
    /\ SecondOf(log[1].event) = SecondOf(log[2].event)
    /\ SecondOf(log[2].event) = SecondOf(log[3].event)
    /\ SecondOf(log[4].event) = SecondOf(log[3].event) + 1

C13_Folded(event) ==
    LET n == Len(update_rate)
    IN  IF ~IsUpdateSpan(event)
        THEN update_rate' = update_rate
        ELSE IF n > 0 /\ update_rate[n].second = SecondOf(event)
             THEN /\ Len(update_rate') = n
                  /\ SubSeq(update_rate', 1, n - 1) = SubSeq(update_rate, 1, n - 1)
                  /\ update_rate'[n].total = update_rate[n].total + 1
                  /\ update_rate'[n].at = event.at
                  /\ update_rate'[n].second = update_rate[n].second
             ELSE /\ Len(update_rate') = n + 1
                  /\ SubSeq(update_rate', 1, n) = update_rate
                  /\ update_rate'[n + 1].total = 1
                  /\ update_rate'[n + 1].second = SecondOf(event)
                  /\ update_rate'[n + 1].at = event.at

C13_BucketFolding ==
    /\ [][\A event \in Events :
            (push(event) /\ NoClear /\ removed' = 0) => C13_Folded(event)]_vars
    /\ []((NoClear /\ removed = 0) => SumTotals(update_rate) = Cardinality(UpdatePushes))
    /\ [](ThreeThenOne => Totals(update_rate) = <<3, 1>>)

\* Three Update events of one second with timestamps that differ, then one
\* of the next second: two buckets, the first with the latest timestamp.
C13_Witness ==
    /\ ThreeThenOne
    /\ Totals(update_rate) = <<3, 1>>
    /\ log[1].event.at # log[3].event.at
    /\ update_rate[1].at = log[3].event.at

(***************************************************************************)
(* C14: clear is a full reset: right after clear(), in any prior state,    *)
(* len() = 0, range() = Index(0)..=Index(0), and seek, timeframes, updates *)
(* and update_rate yield nothing for every playhead.                       *)
(***************************************************************************)
C14_ClearIsFullReset ==
    LastOp.op = "clear" =>
        /\ len = 0
        /\ range = [start |-> 0, end |-> 0]
        /\ \A playhead \in Playheads :
              /\ seek(playhead).items = <<>>
              /\ \A stage \in Stages : timeframes(playhead, stage).items = <<>>
              /\ \A r \in Updates(playhead) : r.items = <<>>
              /\ \A r \in UpdateRate(playhead) : r.items = <<>>

(***************************************************************************)
(* C15: on a fresh Timeline, range() = Index(0)..=Index(0), end() =        *)
(* Index(0), seek(Live), seek_with_index(Live), timeframes(Live, stage)    *)
(* for every stage, updates(Live) and update_rate(Live) are empty, and     *)
(* time_at(Live) is None.                                                  *)
(***************************************************************************)
Fresh == log = <<>>

C15_FreshIsEmpty ==
    Fresh =>
        /\ range = [start |-> 0, end |-> 0]
        /\ end = 0
        /\ seek(Live) = Ok(<<>>)
        /\ seek_with_index(Live) = Ok(<<>>)
        /\ \A stage \in Stages : timeframes(Live, stage) = Ok(<<>>)
        /\ Updates(Live) = {Ok(<<>>)}
        /\ UpdateRate(Live) = {Ok(<<>>)}
        /\ time_at(Live) = Ok(<<>>)

\* The Timeline as Timeline::new() leaves it, queried at Live.
C15_Witness ==
    /\ Fresh
    /\ Timeline = new
    /\ index(Live) = 0
    /\ time_at(Live) = Ok(<<>>)

(***************************************************************************)
(* C16: for every playhead with removed <= resolved index <= end(),        *)
(* time_at returns the timestamp of the retained event with logical index  *)
(* resolved - 1, and None exactly when the resolved index equals removed.  *)
(***************************************************************************)
C16_TimeAtPrecedingEvent ==
    \A playhead \in Playheads :
        LET i == index(playhead)
        IN  (removed <= i /\ i <= end) =>
                /\ ~time_at(playhead).panic
                /\ time_at(playhead).items = <<>> <=> i = removed
                /\ i > removed =>
                      /\ time_at(playhead) = Ok(<<events[(i - 1) - removed + 1].at>>)
                      /\ NoClear => time_at(playhead) = Ok(<<Pushed[i].at>>)

\* After an eviction, a playhead paused before the newest event: time_at is
\* the timestamp of the event before it, not of the newest one.
C16_Witness ==
    /\ removed > 0
    /\ len = MAX_SIZE
    /\ events[len - 1].at # events[len].at
    /\ time_at(Paused(end - 1)) = Ok(<<events[len - 1].at>>)
    /\ time_at(Paused(removed)) = Ok(<<>>)

(***************************************************************************)
(* C17: for every playhead within range() and every stage, timeframes      *)
(* yields one Timeframe, with the event's at and duration, for exactly the *)
(* SpanFinished events before the resolved index whose span is of the      *)
(* requested stage, newest first, and nothing for any other event; in the  *)
(* scenario timeframes(Live, Update) yields durations 12 then 10.          *)
(***************************************************************************)
\* The at and duration of the matching events of logical index j, j - 1,
\* ..., removed.
RECURSIVE FramesFrom(_, _)
FramesFrom(j, stage) ==
    IF j < removed
    THEN <<>>
    ELSE LET event == events[j - removed + 1]
         IN  (IF event.kind = "SpanFinished" /\ event.span.variant = stage
              THEN <<[at |-> event.at, duration |-> event.duration]>>
              ELSE <<>>) \o FramesFrom(j - 1, stage)

AtAndDuration(items) ==
    [k \in 1..Len(items) |-> [at |-> items[k].at, duration |-> items[k].duration]]

Durations(items) == [k \in 1..Len(items) |-> items[k].duration]

C17_TimeframesOfStage ==
    /\ \A playhead \in Playheads, stage \in Stages :
          (removed <= index(playhead) /\ index(playhead) <= end) =>
              /\ ~timeframes(playhead, stage).panic
              /\ AtAndDuration(timeframes(playhead, stage).items) =
                    FramesFrom(index(playhead) - 1, stage)
    /\ Scenario => Durations(timeframes(Live, "Update").items) = <<12, 10>>

\* The scenario: two Update timeframes, newest first, none of another
\* stage, and only the older one before a playhead paused on Update #2.
C17_Witness ==
    /\ Scenario
    /\ Durations(timeframes(Live, "Update").items) = <<12, 10>>
    /\ timeframes(Live, "View") = Ok(<<>>)
    /\ Durations(timeframes(Paused(2), "Update").items) = <<10>>

(***************************************************************************)
(* C18 (as stated): for all Index values a and naturals n, a - n equals    *)
(* max(a - n, 0), a + n equals the plain sum, and Index values are ordered *)
(* by their integer value.                                                 *)
(***************************************************************************)
C18_SubSaturates ==
    calc.op = "sub" =>
        /\ calc.out = (IF calc.a - calc.rhs > 0 THEN calc.a - calc.rhs ELSE 0)
        /\ calc.out \in Usize

C18_OrderedByValue ==
    calc.op = "cmp" =>
        /\ calc.out = "Less" <=> calc.a < calc.rhs
        /\ calc.out = "Equal" <=> calc.a = calc.rhs
        /\ calc.out = "Greater" <=> calc.a > calc.rhs

C18_IndexArithmetic ==
    /\ C18_SubSaturates
    /\ C18_OrderedByValue
    /\ calc.op = "add" => calc.out = Value(calc.a + calc.rhs)

(***************************************************************************)
(* C18 (amended): a - n equals max(a - n, 0); a + n equals the plain sum   *)
(* whenever the sum is at most usize::MAX, and past usize::MAX the         *)
(* addition overflows (a panic, or the sum wrapped around) and is never    *)
(* the plain sum; Index values are ordered by their integer value.         *)
(***************************************************************************)
C18_IndexArithmeticInRange ==
    /\ C18_SubSaturates
    /\ C18_OrderedByValue
    /\ calc.op = "add" =>
          IF calc.a + calc.rhs <= UsizeMax
          THEN calc.out = Value(calc.a + calc.rhs)
          ELSE calc.out # Value(calc.a + calc.rhs)

\* A subtraction that saturated at the origin.
C18_Witness ==
    /\ calc.op = "sub"
    /\ calc.a < calc.rhs
    /\ calc.a > 0
    /\ calc.out = 0

(***************************************************************************)
(* C19: in the application, handling a Connected event whose name differs  *)
(* from the current producer name (or arriving while Waiting) sets the     *)
(* playhead to Live and clears the Timeline before the event is pushed, so *)
(* that seek(Live) afterwards yields exactly that one Connected event;     *)
(* handling a Connected event with the same name leaves the playhead       *)
(* unchanged, makes no clear, and changes the retained events only by the  *)
(* push of the event (which, as every push, drops the oldest event when    *)
(* the Timeline is full).                                                  *)
(***************************************************************************)
\* This step handled EventReported(event): its push is the newest log entry.
Handled(event) ==
    /\ Len(log') > Len(log)
    /\ log'[Len(log')].op = "push"
    /\ log'[Len(log')].event = event

AppendedTo(deque, event) ==
    IF Len(deque) < capacity
    THEN Append(deque, event)
    ELSE Append(Tail(deque), event)

C19_ConnectedHandling ==
    [][\A event \in AppEvents :
          (event.kind = "Connected" /\ Handled(event)) =>
              IF state.tag = "Waiting" \/ state.name # event.name
              THEN /\ comet_playhead' = Live
                   /\ Len(log') = Len(log) + 2
                   /\ log'[Len(log) + 1].op = "clear"
                   /\ events' = <<event>>
                   /\ seek(Live)' = Ok(<<event>>)
              ELSE /\ comet_playhead' = comet_playhead
                   /\ Len(log') = Len(log) + 1
                   /\ events' = AppendedTo(events, event)]_vars

\* Producer "b" connected while the Timeline retained the events of
\* producer "a": the Timeline was cleared and holds that one event.
C19_Witness ==
    /\ Len(log) = 4
    /\ log[1].op = "clear"
    /\ log[2].op = "push" /\ log[2].event = Connected("a", 0)
    /\ log[3].op = "clear"
    /\ log[4].op = "push" /\ log[4].event = Connected("b", 0)
    /\ state = Working("b", TRUE)
    /\ events = <<Connected("b", 0)>>
    /\ seek(Live) = Ok(<<Connected("b", 0)>>)
    /\ comet_playhead = Live

(***************************************************************************)
(* C20: after any sequence of push and clear operations, the updates       *)
(* sequence and the update_rate sequence are each strictly increasing in   *)
(* their index field.                                                      *)
(***************************************************************************)
StrictlyIncreasing(deque) ==
    \A i, j \in 1..Len(deque) : i < j => deque[i].index < deque[j].index

C20_IndexOrdered ==
    /\ StrictlyIncreasing(updates)
    /\ StrictlyIncreasing(update_rate)

(***************************************************************************)
(* C21: each bucket of update_rate is tagged with the Index of the last    *)
(* event folded into it: after an Update-span event is folded into the     *)
(* tail bucket, that bucket's index equals the logical index of the event. *)
(***************************************************************************)
\* This step pushed `event` and folded it into the bucket that was the tail.
FoldedIntoTail(event) ==
    /\ Handled(event)
    /\ IsUpdateSpan(event)
    /\ update_rate # <<>>
    /\ update_rate[Len(update_rate)].second = SecondOf(event)
    /\ update_rate' # <<>>
    /\ update_rate'[Len(update_rate')].total =
          update_rate[Len(update_rate)].total + 1

C21_TaggedWithLastFolded ==
    [][\A event \in UpdateEvents :
          FoldedIntoTail(event) =>
              update_rate'[Len(update_rate')].index = log'[Len(log')].index]_vars

(***************************************************************************)
(* C22: on every push that evicts an event, if the front bucket of         *)
(* update_rate has a timestamp older than the evicted event's timestamp,   *)
(* that front bucket is removed in the same push, whatever the kind of the *)
(* evicted event; at most one bucket is removed per push.                  *)
(***************************************************************************)
\* This step pushed `event` and evicted Head(events), while the front bucket
\* (not the one `event` is folded into) was older than the evicted event.
EvictedPastFrontBucket(event) ==
    /\ Handled(event)
    /\ log'[Len(log')].evicted
    /\ update_rate # <<>>
    /\ Head(update_rate).at < Head(events).at
    /\ ~(/\ IsUpdateSpan(event)
         /\ Len(update_rate) = 1
         /\ Head(update_rate).second = SecondOf(event))

C22_FrontBucketEvicted ==
    [][\A event \in Events :
          /\ EvictedPastFrontBucket(event) =>
                \/ update_rate' = <<>>
                \/ Head(update_rate') # Head(update_rate)
          /\ Handled(event) => Len(update_rate') >= Len(update_rate) - 1]_vars

(***************************************************************************)
(* C23: rate buckets are never split or merged retroactively: once a newer *)
(* bucket has been appended after bucket B, no later push changes B's      *)
(* index, second, total or at (B can only be removed whole from the        *)
(* front), and for every bucket its second and index never change after    *)
(* creation.                                                               *)
(***************************************************************************)
\* update_rate' is update_rate with `dropped` buckets removed from the front,
\* every bucket that has a successor kept as it was, the tail bucket kept in
\* its second and index, and at most one new bucket appended.
BucketsKept(dropped) ==
    LET n == Len(update_rate)
    IN  /\ dropped <= n
        /\ Len(update_rate') \in {n - dropped, n - dropped + 1}
        /\ \A k \in (dropped + 1)..(n - 1) :
              update_rate'[k - dropped] = update_rate[k]
        /\ n > dropped =>
              /\ update_rate'[n - dropped].second = update_rate[n].second
              /\ update_rate'[n - dropped].index = update_rate[n].index

C23_BucketsNeverRewritten ==
    [][BucketsKept(0) \/ BucketsKept(1)]_vars

\* Two buckets, the older one closed, the newer one folded into twice.
C23_Witness ==
    /\ Len(update_rate) = 2
    /\ update_rate[1].total = 1
    /\ update_rate[2].total = 2
    /\ update_rate[1].second # update_rate[2].second
    /\ LastOp.op = "push"

(***************************************************************************)
(* C24 (as stated): for every EventReported message the application        *)
(* handles, Timeline::push is called exactly once with that event, and     *)
(* events are pushed in the order their messages are handled.              *)
(***************************************************************************)
\* The events Timeline::push was called with, in call order.
PushedEvents ==
    LET calls == SelectSeq(log, LAMBDA entry : entry.op = "push")
    IN  [k \in 1..Len(calls) |-> calls[k].event]

C24_PushedOncePerMessage == PushedEvents = handled

(***************************************************************************)
(* C24 (amended): for every EventReported message the application handles  *)
(* whose event is neither QuitRequested nor AlreadyRunning, Timeline::push *)
(* is called exactly once with that event, in the order the messages are   *)
(* handled, and the retained events are the newest of them; for            *)
(* QuitRequested and AlreadyRunning the application exits and push is not  *)
(* called.                                                                 *)
(***************************************************************************)
IsExitRequest(event) ==
    event.kind = "QuitRequested" \/ event.kind = "AlreadyRunning"

C24_PushedOnceUnlessExit ==
    /\ PushedEvents = SelectSeq(handled, LAMBDA event : ~IsExitRequest(event))
    /\ Len(events) <= Len(PushedEvents)
    /\ events = SubSeq(PushedEvents, Len(PushedEvents) - Len(events) + 1,
                       Len(PushedEvents))
    /\ (handled # <<>> /\ IsExitRequest(handled[Len(handled)])) =>
          status = "exited"

\* Two events were pushed in order, then QuitRequested ended the application
\* without a push.
C24_Witness ==
    /\ Len(handled) = 3
    /\ handled[1].kind = "Connected"
    /\ IsUpdateSpan(handled[2])
    /\ handled[3].kind = "QuitRequested"
    /\ PushedEvents = <<handled[1], handled[2]>>
    /\ events = <<handled[1], handled[2]>>
    /\ status = "exited"

(***************************************************************************)
(* C25: a Paused playhead is frozen until explicitly changed: while the    *)
(* application's playhead is Paused(i), handling an EventReported message  *)
(* for any event other than a Connected event with a different producer    *)
(* name (different from the current one, or arriving while Waiting) leaves *)
(* the playhead equal to Paused(i), and Timeline::index(Paused(i)) returns *)
(* i no matter how many events are pushed or evicted.                      *)
(***************************************************************************)
\* This step handled an EventReported message; its event.
Reported == handled' # handled

ReportedEvent == handled'[Len(handled')]

IsNewIdentity(event) ==
    /\ event.kind = "Connected"
    /\ state.tag = "Waiting" \/ state.name # event.name

C25_PausedStaysPaused ==
    (Reported /\ comet_playhead.tag = "Paused" /\ ~IsNewIdentity(ReportedEvent)) =>
        /\ comet_playhead' = comet_playhead
        /\ index(comet_playhead)' = comet_playhead.index

C25_PausedIsFrozen ==
    /\ [](\A i \in Indices : index(Paused(i)) = i)
    /\ [][C25_PausedStaysPaused]_vars

\* The playhead is paused at a position that events have been pushed past,
\* one of them evicted.
C25_Witness ==
    /\ comet_playhead.tag = "Paused"
    /\ removed > 0
    /\ comet_playhead.index < end
    /\ comet_playhead.index > 0
    /\ index(comet_playhead) = comet_playhead.index
    /\ status = "running"

(***************************************************************************)
(* C26: chart caches are invalidated by new events: while the Update       *)
(* screen is shown, whenever a handled event changes the data sequence a   *)
(* chart draws from (update durations, tasks spawned, subscriptions alive, *)
(* all read from Timeline::updates, and message rate), that chart's cache  *)
(* is cleared in the same update step.                                     *)
(***************************************************************************)
\* The (index, value) pairs of `field` in the items of a query outcome.
Datapoints(outcome, field) ==
    IF outcome.panic
    THEN outcome
    ELSE Ok([k \in 1..Len(outcome.items) |->
                <<outcome.items[k].index, outcome.items[k][field]>>])

\* What a chart of the Update screen draws from: the outcomes of its query.
DrawnFrom(chart) ==
    CASE chart = "update" ->
            { Datapoints(r, "duration") : r \in Updates(comet_playhead) }
      [] chart = "tasks_spawned" ->
            { Datapoints(r, "tasks") : r \in Updates(comet_playhead) }
      [] chart = "subscriptions_alive" ->
            { Datapoints(r, "subscriptions") : r \in Updates(comet_playhead) }
      [] chart = "message_rate" ->
            { Datapoints(r, "total") : r \in UpdateRate(comet_playhead) }

C26_CachesInvalidated ==
    [][(Reported /\ screen.tag = "Update" /\ status' = "running") =>
          \A chart \in Caches("Update") :
              DrawnFrom(chart)' # DrawnFrom(chart) => chart \notin screen'.drawn]_vars

(***************************************************************************)
(* C27: under every interleaving of EventReported messages (including a    *)
(* Connected event that clears the Timeline) with PlayheadChanged(index)   *)
(* and chart Hovered(index) messages whose index was computed from an      *)
(* earlier view of the Timeline, the application never calls               *)
(* Timeline::seek with a resolved index greater than Timeline::end(), so   *)
(* the out-of-range panic in seek is unreachable.                          *)
(***************************************************************************)
\* The pending message is about to make Comet::rewind call Timeline::seek.
SeeksAt(i) ==
    /\ pending # <<>>
    /\ Head(pending).message \in {"PlayheadChanged", "Hovered"}
    /\ Head(pending).index = i
    /\ status = "running"
    /\ IsConnected

C27_SeekWithinEnd ==
    /\ status # "panicked"
    /\ \A i \in Indices : SeeksAt(i) => i <= end

(***************************************************************************)
(* C28: every query reports the same Index for the same event: for each    *)
(* retained Update-span event, the index of its summary yielded by         *)
(* updates(Live) equals the index of its Timeframe yielded by              *)
(* timeframes(Live, Stage::Update), with and without prior evictions.      *)
(***************************************************************************)
\* The k-th newest retained Update-span event is the k-th Timeframe of
\* timeframes(Live, Update) and the k-th summary of updates(Live).
C28_SameIndexInEveryQuery ==
    LET frames == timeframes(Live, "Update")
    IN  /\ ~frames.panic
        /\ \A summaries \in Updates(Live) :
              /\ ~summaries.panic
              /\ \A k \in 1..Len(frames.items) :
                    /\ k <= Len(summaries.items)
                    /\ summaries.items[k].index = frames.items[k].index

(***************************************************************************)
(* C29: after the producer identity changes (a Connected event with a      *)
(* different name is handled, which clears the Timeline) and any number of *)
(* further events are pushed, updates(Live) and update_rate(Live) yield    *)
(* only entries derived from events pushed after the clear.                *)
(***************************************************************************)
\* The pushes of Update spans made after the last clear.
UpdatePushesSinceClear ==
    { k \in UpdatePushes : \A c \in Clears : c < k }

SummariesSinceClear ==
    { SummaryOf(log[k].event, log[k].index) : k \in UpdatePushesSinceClear }

\* A bucket made of Update spans pushed after the last clear only.
BucketSinceClear(bucket) ==
    /\ \E k \in UpdatePushesSinceClear :
          /\ bucket.index = log[k].index
          /\ bucket.second = SecondOf(log[k].event)
    /\ bucket.total <=
          Cardinality({ k \in UpdatePushesSinceClear :
                          SecondOf(log[k].event) = bucket.second })

C29_NothingOfPreviousProducer ==
    /\ \A r \in Updates(Live) :
          /\ ~r.panic
          /\ \A k \in 1..Len(r.items) : r.items[k] \in SummariesSinceClear
    /\ \A r \in UpdateRate(Live) :
          /\ ~r.panic
          /\ \A k \in 1..Len(r.items) : BucketSinceClear(r.items[k])

(***************************************************************************)
(* C30 (as stated): in any push-only sequence whose Update-span events     *)
(* have non-decreasing timestamps, a bucket is never removed while an      *)
(* Update-span event folded into it is still retained, and in every        *)
(* reachable state (here: every state reached by pushes, of any            *)
(* timestamps) at most one bucket of update_rate has all of its            *)
(* Update-span events already evicted.                                     *)
(***************************************************************************)
NonDecreasingUpdates ==
    \A j, k \in UpdatePushes : j < k => log[j].event.at <= log[k].event.at

\* The logical indices of the Update spans pushed so far (no clear).
UpdateIndices == { log[k].index : k \in UpdatePushes }

\* The Update spans folded into a bucket: the one that created it (at the
\* bucket's index) and the next total - 1 Update spans pushed after it.
FoldedInto(bucket) ==
    { i \in UpdateIndices :
        /\ bucket.index <= i
        /\ Cardinality({ j \in UpdateIndices : bucket.index <= j /\ j <= i })
              <= bucket.total }

\* The buckets all of whose Update spans are evicted.
LaggingBuckets ==
    { k \in 1..Len(update_rate) :
        \A i \in FoldedInto(update_rate[k]) : i < removed }

\* Every retained Update span still has the bucket it was folded into.
BucketsOfRetainedKept ==
    \A i \in UpdateIndices :
        i >= removed =>
            \E k \in 1..Len(update_rate) : i \in FoldedInto(update_rate[k])

C30_PinnedLag ==
    NoClear =>
        /\ NonDecreasingUpdates => BucketsOfRetainedKept
        /\ Cardinality(LaggingBuckets) <= 1

(***************************************************************************)
(* C30 (amended): in any push-only sequence whose Update-span events have  *)
(* non-decreasing timestamps, a bucket is never removed while an           *)
(* Update-span event folded into it is still retained, and in every state  *)
(* of such a sequence at most one bucket of update_rate has all of its     *)
(* Update-span events already evicted.                                     *)
(***************************************************************************)
C30_PinnedLagInOrder ==
    (NoClear /\ NonDecreasingUpdates) =>
        /\ BucketsOfRetainedKept
        /\ Cardinality(LaggingBuckets) <= 1

\* Timestamps in order, the Update span of the front bucket evicted and the
\* bucket still there, behind it a bucket whose Update span is retained.
C30_Witness ==
    /\ NoClear
    /\ NonDecreasingUpdates
    /\ removed > 0
    /\ Len(update_rate) = 2
    /\ LaggingBuckets = {1}
    /\ \E k \in 1..Len(events) : IsUpdateSpan(events[k])

(***************************************************************************)
(* C31: for every Paused(i) within range(), each bucket yielded by         *)
(* update_rate(Paused(i)) has a total that counts only Update-span events  *)
(* with logical index strictly less than i (a bucket straddling the        *)
(* playhead does not include events at or after the playhead).             *)
(***************************************************************************)
C31_TotalsBeforePlayhead ==
    NoClear =>
        \A i \in Indices :
            (removed <= i /\ i <= end) =>
                \A r \in UpdateRate(Paused(i)) :
                    /\ ~r.panic
                    /\ \A k \in 1..Len(r.items) :
                          \A j \in FoldedInto(r.items[k]) : j < i

(***************************************************************************)
(* C32: while the producer is connected, whenever the application's        *)
(* playhead is Paused(i) and some Update-span event lies before i, the     *)
(* most recent command sent to the producer is rewind_to(n), with n the    *)
(* number of an Update-span event, never go_live; in particular chart      *)
(* Hovered / Unhovered interactions do not leave the producer live while   *)
(* the viewer's playhead is Paused.                                        *)
(***************************************************************************)
\* Some Update span lies before the paused playhead.
PausedAfterAnUpdate ==
    /\ comet_playhead.tag = "Paused"
    /\ ~seek(comet_playhead).panic
    /\ update_numbers(seek(comet_playhead).items) # <<>>

C32_ProducerRewoundWhilePaused ==
    (status = "running" /\ IsConnected /\ PausedAfterAnUpdate) =>
        /\ command # GoLiveCommand
        /\ command.command = "rewind_to"
        /\ \E p \in Payloads : command.number = p.number

(***************************************************************************)
(* C33 (as stated): Next from Paused(i) yields Live when i + 1 >= end()    *)
(* and Paused(i + 1) otherwise, Next from Live stays Live, and Previous    *)
(* from Paused(i) yields Paused(i - 1) saturating at Index(0);             *)
(* consequently, if no further event is pushed, repeatedly handling Next   *)
(* from any Paused(i) with i <= end() reaches Live after at most           *)
(* end() - i steps.                                                        *)
(***************************************************************************)
C33_NextSteps ==
    Message_Next =>
        comet_playhead' =
            IF comet_playhead.tag = "Live" THEN Live
            ELSE IF comet_playhead.index + 1 >= end THEN Live
            ELSE Paused(comet_playhead.index + 1)

C33_PreviousSteps ==
    (Previous /\ comet_playhead.tag = "Paused") =>
        comet_playhead' =
            Paused(IF comet_playhead.index = 0 THEN 0 ELSE comet_playhead.index - 1)

\* The number of Next messages that take a playhead to Live while the
\* Timeline stays as it is.
RECURSIVE StepsToLive(_)
StepsToLive(p) ==
    IF p.tag = "Live"
    THEN 0
    ELSE 1 + StepsToLive(next_playhead(p.index + 1))

C33_Stepping ==
    /\ [][C33_NextSteps /\ C33_PreviousSteps]_vars
    /\ [](\A i \in Indices :
            i <= end =>
                /\ Add(i, 1) = {Value(i + 1)}
                /\ StepsToLive(Paused(i)) <= end - i)

(***************************************************************************)
(* C33 (amended): the same stepping; repeatedly handling Next from any     *)
(* Paused(i) with i <= end() reaches Live after at most end() - i steps    *)
(* when i < end(), and after one step when i = end().                      *)
(***************************************************************************)
C33_SteppingWithinEnd ==
    /\ [][C33_NextSteps /\ C33_PreviousSteps]_vars
    /\ [](\A i \in Indices :
            i <= end =>
                /\ Add(i, 1) = {Value(i + 1)}
                /\ StepsToLive(Paused(i)) = (IF i = end THEN 1 ELSE end - i))

\* Paused with more than one Next to go before Live.
C33_Witness ==
    /\ status = "running"
    /\ comet_playhead.tag = "Paused"
    /\ comet_playhead.index > 0
    /\ comet_playhead.index + 1 < end
    /\ StepsToLive(comet_playhead) = end - comet_playhead.index
    /\ ENABLED Message_Next

(***************************************************************************)
(* C34: TogglePause from Live sets the playhead to Paused(end()) and a     *)
(* second TogglePause returns it to Live; at the moment of pausing,        *)
(* seek(Paused(end())) yields exactly the same event sequence as           *)
(* seek(Live), and after further pushes seek(Paused(that index)) still     *)
(* yields the events that were retained from that sequence, unaffected by  *)
(* the newer events.                                                       *)
(***************************************************************************)
C34_Toggles ==
    TogglePause =>
        IF comet_playhead.tag = "Live"
        THEN /\ comet_playhead' = Paused(end)
             /\ seek(comet_playhead)' = seek(Live)
             /\ ~seek(Live).panic
        ELSE comet_playhead' = Live

\* The events pushed since the last clear at a logical index below i that
\* are still retained, oldest first.
RetainedBefore(i) ==
    LET kept == SelectSeq(log, LAMBDA entry :
                    /\ entry.op = "push"
                    /\ removed <= entry.index
                    /\ entry.index < i)
        since == { k \in 1..Len(kept) :
                     \A j \in (k + 1)..Len(kept) : kept[j].index > kept[k].index }
    IN  [k \in 1..Cardinality(since) |->
            kept[Len(kept) - Cardinality(since) + k].event]

C34_PausedView ==
    (comet_playhead.tag = "Paused" /\ comet_playhead.index <= end) =>
        seek(comet_playhead) = Ok(Reverse(RetainedBefore(comet_playhead.index)))

C34_PauseFreezesView ==
    /\ [][C34_Toggles]_vars
    /\ []C34_PausedView

\* Paused, events pushed since, one of the paused view evicted and one of
\* it still shown.
C34_Witness ==
    /\ comet_playhead.tag = "Paused"
    /\ comet_playhead.index < end
    /\ removed > 0
    /\ ~seek(comet_playhead).panic
    /\ Len(seek(comet_playhead).items) = 1
    /\ seek(comet_playhead) # seek(Live)

(***************************************************************************)
(* The protocol client (protocol/src/client.rs): the Client the producer   *)
(* holds, the channel between it and the thread of run, and the stream run *)
(* writes to.  sender is whether a Client still holds the channel's        *)
(* sender, receiver the inputs pending in the channel, client_run the      *)
(* position of run, buffer the lines the BufStream holds and wire the      *)
(* lines it has written to the socket.  listening is whether a server      *)
(* listens on SOCKET_ADDRESS (environment).  History: made counts the      *)
(* calls of report_performance, accepted lists the reports the channel     *)
(* took, sends the calls of send with their result, connections the        *)
(* streams _connect returned, failures its errors, slept the seconds run   *)
(* has slept.                                                              *)
(***************************************************************************)

\* Stands for the 1_000 of mpsc::channel(1_000).
ChannelCapacity == 2

\* Calls of report_performance in one run.
MaxReports == 3

\* Failed calls of _connect in one run.
MaxAttempts == 2

\* env!("CARGO_PKG_VERSION")
version == "0.1.0"

\* server::Performance values, told apart by their Duration.
Performances == 1..MaxReports

Input_Connected(v) == [variant |-> "Connected", version |-> v]

Input_PerformanceReported(performance) ==
    [variant |-> "PerformanceReported", performance |-> performance]

Inputs ==
    { Input_Connected(version) }
        \cup { Input_PerformanceReported(performance) : performance \in Performances }

\* serde_json::to_string(&input): the text of an Input, as the sequence of
\* its tokens (each stands for its bytes).
to_string(i) ==
    IF i.variant = "Connected"
    THEN <<"{", "Connected", i.version, "}">>
    ELSE <<"{", "PerformanceReported", ToString(i.performance), "}">>

\* format!("{}\n", ..) in send
Line(i) == Append(to_string(i), "\n")

\* send: write_all puts the line behind what the BufStream still holds, and
\* flush writes what it holds to the socket, oldest first. When the socket
\* reports an error, what was written before it is on the wire and the rest
\* stays in the BufStream. One outcome per way the socket can behave.
send(i) ==
    LET held == Append(buffer, Line(i))
    IN  { [ok |-> TRUE, buffer |-> <<>>, wire |-> wire \o held] }
            \cup { [ok |-> FALSE,
                    buffer |-> SubSeq(held, k + 1, Len(held)),
                    wire |-> wire \o SubSeq(held, 1, k)] : k \in 0..(Len(held) - 1) }

\* The history of the calls of send.
sent(i, outcome) == Append(sends, [input |-> i, ok |-> outcome.ok])

notclient ==
    <<events, updates, update_rate, removed, capacity, log, calc, appvars,
      servervars>>

try_send_unbounded(message) ==
    IF client_run = "exited" THEN receiver ELSE Append(receiver, message)

\* Sender::try_send: Err(Closed) once run has dropped the receiver,
\* Err(Full) when the channel holds its capacity; the message is queued
\* otherwise.
try_send(message) ==
    IF client_run = "exited" \/ Len(receiver) >= ChannelCapacity
    THEN receiver
    ELSE Append(receiver, message)

\* Client::report_performance
report_performance(performance) ==
    /\ sender
    /\ made < MaxReports
    /\ receiver' = try_send(Input_PerformanceReported(performance))
    /\ made' = made + 1
    /\ accepted' = IF receiver' = receiver
                   THEN accepted
                   ELSE Append(accepted, performance)
    /\ UNCHANGED <<sender, client_run, buffer, wire, listening, sends,
                   connections, failures, slept, notclient>>

\* The producer drops its Client (and every clone of it): the channel
\* closes.
Client_dropped ==
    /\ sender
    /\ sender' = FALSE
    /\ UNCHANGED <<receiver, client_run, buffer, wire, listening, made,
                   accepted, sends, connections, failures, slept, notclient>>

\* A server starts or stops listening on SOCKET_ADDRESS.
server_listens ==
    /\ listening' = ~listening
    /\ UNCHANGED <<sender, receiver, client_run, buffer, wire, made, accepted,
                   sends, connections, failures, slept, notclient>>

\* run, match _connect().await: Ok(stream) when a server listens, Err(_)
\* otherwise.
run__connect ==
    /\ client_run = "_connect"
    /\ IF listening
       THEN /\ client_run' = "send_connected"
            /\ connections' = connections + 1
            /\ UNCHANGED failures
       ELSE /\ failures < MaxAttempts
            /\ client_run' = "sleep"
            /\ failures' = failures + 1
            /\ UNCHANGED connections
    /\ UNCHANGED <<sender, receiver, buffer, wire, listening, made, accepted,
                   sends, slept, notclient>>

\* run, time::sleep(Duration::from_secs(1)) and the next turn of the loop.
run_sleep ==
    /\ client_run = "sleep"
    /\ client_run' = "_connect"
    /\ slept' = slept + 1
    /\ UNCHANGED <<sender, receiver, buffer, wire, listening, made, accepted,
                   sends, connections, failures, notclient>>

\* run, let _ = send(&mut stream, Input::Connected { version }): the result
\* is dropped.
run_send_connected ==
    /\ client_run = "send_connected"
    /\ \E outcome \in send(Input_Connected(version)) :
          /\ buffer' = outcome.buffer
          /\ wire' = outcome.wire
          /\ sends' = sent(Input_Connected(version), outcome)
    /\ client_run' = "recv"
    /\ UNCHANGED <<sender, receiver, listening, made, accepted, connections,
                   failures, slept, notclient>>

after_send_reconnecting(ok) == IF ok THEN "recv" ELSE "_connect"

\* run, if send(..).is_err() { break; } and the break behind the loop.
after_send(ok) == IF ok THEN "recv" ELSE "exited"

\* run, while let Some(input) = receiver.recv().await: the oldest pending
\* input is sent; None, once the channel is closed and empty, ends the
\* loop; run waits otherwise. The stream is dropped with what it holds when
\* run returns.
run_recv ==
    /\ client_run = "recv"
    /\ IF receiver # <<>>
       THEN /\ receiver' = Tail(receiver)
            /\ \E outcome \in send(Head(receiver)) :
                  /\ buffer' = outcome.buffer
                  /\ wire' = outcome.wire
                  /\ sends' = sent(Head(receiver), outcome)
                  /\ client_run' = after_send(outcome.ok)
       ELSE /\ ~sender
            /\ client_run' = "exited"
            /\ UNCHANGED <<receiver, buffer, wire, sends>>
    /\ UNCHANGED <<sender, listening, made, accepted, connections, failures,
                   slept, notclient>>

run ==
    \/ run__connect
    \/ run_sleep
    \/ run_send_connected
    \/ run_recv

NextClient ==
    \/ report_performance(made + 1)
    \/ Client_dropped
    \/ server_listens
    \/ run__connect
    \/ run_sleep
    \/ run_send_connected
    \/ run_recv

SpecClient == Init /\ [][NextClient]_vars

\* The thread of run is scheduled: a step of run that stays possible is
\* taken.
SpecClientFair == SpecClient /\ WF_vars(run)

IsPrefix(s, t) == Len(s) <= Len(t) /\ s = SubSeq(t, 1, Len(s))

\* The lines of one connection when everything accepted is written: the
\* line of Input::Connected, then one line per accepted report, in the
\* order of the calls.
LinesOf(reports) ==
    <<Line(Input_Connected(version))>>
        \o [k \in 1..Len(reports) |-> Line(Input_PerformanceReported(reports[k]))]

C35_WrittenInOrder ==
    /\ IsPrefix(wire, LinesOf(accepted))
    /\ \A j, k \in 1..Len(wire) : j # k => wire[j] # wire[k]

C35_NeverBlocks ==
    (sender /\ made < MaxReports) => ENABLED report_performance(made + 1)

C35_DroppedWhenFull ==
    (report_performance(made + 1) /\ Len(receiver) >= ChannelCapacity) =>
        /\ receiver' = receiver
        /\ accepted' = accepted

\* C35: the lines written on the connection are the line of
\* Input::Connected { version } first, then lines of the reports the channel
\* accepted, in the order report_performance was called, none twice; a call
\* of report_performance is always possible and is one step; and a report
\* made while the channel holds its capacity of pending reports leaves the
\* channel as it was.
C35_ClientOrdering ==
    /\ []C35_WrittenInOrder
    /\ []C35_NeverBlocks
    /\ [][C35_DroppedWhenFull]_vars

\* Three reports were made before run connected: the channel took two and
\* dropped the third, and the connection carries Connected and then the two.
C35_Witness ==
    /\ made = ChannelCapacity + 1
    /\ Len(accepted) = ChannelCapacity
    /\ client_run = "recv"
    /\ receiver = <<>>
    /\ wire = LinesOf(accepted)

\* The calls of send that returned an error.
FailedSends == { k \in 1..Len(sends) : ~sends[k].ok }

\* C36 as stated: run retries _connect, sleeping one second after each
\* failure, and connects at most once; and after the first failed send run
\* has exited and sends nothing more.
C36_FirstFailedSendEnds ==
    /\ connections <= 1
    /\ slept + (IF client_run = "sleep" THEN 1 ELSE 0) = failures
    /\ \A k \in FailedSends : client_run = "exited" /\ k = Len(sends)

C36_RetriesUntilConnected ==
    /\ connections <= 1
    /\ connections = 0 <=> client_run \in {"_connect", "sleep"}
    /\ slept + (IF client_run = "sleep" THEN 1 ELSE 0) = failures

C36_FailedReportEnds ==
    \A k \in FailedSends :
        sends[k].input.variant = "PerformanceReported" =>
            client_run = "exited" /\ k = Len(sends)

C36_HandshakeResultDropped ==
    (run_send_connected /\ sends'[Len(sends')].ok = FALSE) => client_run' = "recv"

C36_ClosedChannelEnds ==
    (run /\ client_run = "recv" /\ ~sender /\ receiver = <<>>) =>
        client_run' = "exited"

C36_ExitIsFinal ==
    client_run = "exited" =>
        /\ client_run' = "exited"
        /\ connections' = connections
        /\ sends' = sends
        /\ wire' = wire

C36_EventuallyConnects == <>[]listening => <>(connections = 1)

\* C36: run calls _connect until it succeeds, sleeping one second after
\* each failure, and connects once a server listens for good; it never
\* holds a second connection; the result of sending Input::Connected is
\* dropped and run goes on to the channel; a failed send of a report is the
\* last send and ends run, and so does the closed, drained channel; once run
\* has ended nothing is connected, sent or written.
C36_ClientLifecycle ==
    /\ []C36_RetriesUntilConnected
    /\ []C36_FailedReportEnds
    /\ [][C36_HandshakeResultDropped]_vars
    /\ [][C36_ClosedChannelEnds]_vars
    /\ [][C36_ExitIsFinal]_vars
    /\ C36_EventuallyConnects

\* _connect failed and run slept before it connected; sending Connected
\* failed, the first report went out, sending the second failed and run
\* ended.
C36_Witness ==
    /\ failures > 0
    /\ slept = failures
    /\ connections = 1
    /\ client_run = "exited"
    /\ Len(sends) = 3
    /\ ~sends[1].ok
    /\ sends[2].ok
    /\ ~sends[3].ok

(***************************************************************************)
(* The protocol server (protocol/src/server.rs): the stream of run.        *)
(* server_state is the State of stream::unfold, input the String that the  *)
(* running call of receive reads lines into.  History: received holds, per *)
(* accepted stream, the lines read from it, and emitted the messages the   *)
(* stream of run has yielded, each with the stream it was read from and    *)
(* the number of lines read from that stream by then.                      *)
(***************************************************************************)

\* Streams accepted in one run of the server.
MaxConnections == 2

\* Lines read in one run of the server, over all its streams.
MaxLines == 3

\* State::Connected(stream); the streams are numbered as they are accepted.
State_Connected(stream) == [tag |-> "Connected", stream |-> stream]

Message_Connected == [message |-> "Connected"]

Message_Disconnected == [message |-> "Disconnected"]

Message_PerformanceReported(performance) ==
    [message |-> "PerformanceReported", performance |-> performance]

Whitespace == {" ", "\n"}

\* The text without the whitespace at its ends.
Trimmed(text) ==
    LET inked == { k \in 1..Len(text) : text[k] \notin Whitespace }
    IN  IF inked = {}
        THEN <<>>
        ELSE SubSeq(text,
                    CHOOSE k \in inked : \A j \in inked : k <= j,
                    CHOOSE k \in inked : \A j \in inked : j <= k)

Decoded(i) == [ok |-> TRUE, input |-> i]

DecodeError == [ok |-> FALSE]

\* serde_json::from_str::<Input>(text): one value, whitespace around it
\* allowed, nothing else behind it.
from_str(text) ==
    LET t == Trimmed(text)
    IN  IF Len(t) = 4 /\ t[1] = "{" /\ t[4] = "}"
        THEN IF t[2] = "Connected" /\ t[3] \notin {"{", "}", "x"}
             THEN Decoded(Input_Connected(t[3]))
             ELSE IF /\ t[2] = "PerformanceReported"
                     /\ \E d \in Performances : ToString(d) = t[3]
                  THEN Decoded(Input_PerformanceReported(
                           CHOOSE d \in Performances : ToString(d) = t[3]))
                  ELSE DecodeError
        ELSE DecodeError

\* receive, the match on the decoded Input
message_of(i) ==
    IF i.variant = "Connected"
    THEN Message_Connected
    ELSE Message_PerformanceReported(i.performance)

\* Lines a peer sends: the two the client writes, an empty line, a line
\* that is no JSON, and the line of Connected with something behind it.
PeerLines ==
    { Line(Input_Connected(version)),
      Line(Input_PerformanceReported(1)),
      <<"\n">>,
      <<"x", "\n">>,
      to_string(Input_Connected(version)) \o <<" ", "x", "\n">> }

notserver ==
    <<events, updates, update_rate, removed, capacity, log, calc, appvars,
      clientvars>>

RECURSIVE TotalLen(_)
TotalLen(seqs) == IF seqs = <<>> THEN 0 ELSE Len(Head(seqs)) + TotalLen(Tail(seqs))

\* What the stream of run yields, with where it was read.
Emitted(message, lines) ==
    [message |-> message, stream |-> server_state.stream, line |-> lines]

\* run, State::Disconnected with connect() returning Ok(stream): nothing is
\* yielded (None is filtered out), the state is Connected.
server_connect ==
    /\ server_state = State_Disconnected
    /\ Len(received) < MaxConnections
    /\ server_state' = State_Connected(Len(received) + 1)
    /\ received' = Append(received, <<>>)
    /\ input' = <<>>
    /\ UNCHANGED <<emitted, notserver>>

\* run, State::Disconnected with connect() returning Err(_): nothing is
\* yielded, the state stays Disconnected.
server_connect_failed ==
    /\ server_state = State_Disconnected
    /\ UNCHANGED <<servervars, notserver>>

after_receive_connected(message) == State_Connected(server_state.stream)

\* run, the match on receive(stream).await
after_receive(message) ==
    IF message = Message_Disconnected
    THEN State_Disconnected
    ELSE State_Connected(server_state.stream)

\* receive, one turn of its loop in which read_line reads a line: the line
\* is put behind what input holds, and the first n bytes of input are
\* decoded, n the length of the line. A decoded Input ends the call with
\* its message (the next call starts with a new String); otherwise the loop
\* goes on with input as it is.
receive_line(line) ==
    /\ server_state.tag = "Connected"
    /\ TotalLen(received) < MaxLines
    /\ received' = [received EXCEPT ![server_state.stream] = Append(@, line)]
    /\ LET read == input \o line
           n == Len(line)
           decoded == from_str(SubSeq(read, 1, n))
           lines == Len(received[server_state.stream]) + 1
       IN  IF decoded.ok
           THEN /\ emitted' =
                    Append(emitted, Emitted(message_of(decoded.input), lines))
                /\ server_state' = after_receive(message_of(decoded.input))
                /\ input' = <<>>
           ELSE /\ input' = read
                /\ UNCHANGED <<emitted, server_state>>
    /\ UNCHANGED notserver

\* run, receive returning Ok((_, Message::Disconnected)) or Err(_):
\* Message::Disconnected is yielded.
disconnected ==
    /\ emitted' =
        Append(emitted,
               Emitted(Message_Disconnected, Len(received[server_state.stream])))
    /\ server_state' = after_receive(Message_Disconnected)
    /\ input' = <<>>
    /\ UNCHANGED <<received, notserver>>

\* receive, read_line returns 0: the peer closed the stream.
receive_eof ==
    /\ server_state.tag = "Connected"
    /\ disconnected

\* receive, read_line returns an error.
receive_error ==
    /\ server_state.tag = "Connected"
    /\ disconnected

NextServer ==
    \/ server_connect
    \/ server_connect_failed
    \/ \E line \in PeerLines : receive_line(line)
    \/ receive_eof
    \/ receive_error

SpecServer == Init /\ [][NextServer]_vars

\* A line that decodes when it is read on its own.
WellFormed(line) == from_str(line).ok

\* The messages of the well-formed lines among these, in their order.
MessagesOf(lines) ==
    LET good == SelectSeq(lines, WellFormed)
    IN  [k \in 1..Len(good) |-> message_of(from_str(good[k]).input)]

\* The messages decoded from a stream so far, in the order they were
\* yielded.
DecodedFrom(stream) ==
    LET of == SelectSeq(emitted, LAMBDA entry :
                  entry.stream = stream /\ entry.message # Message_Disconnected)
    IN  [k \in 1..Len(of) |-> of[k].message]

\* The Message::Disconnected yielded so far.
Disconnections ==
    Cardinality({ k \in 1..Len(emitted) : emitted[k].message = Message_Disconnected })

C37_Alternates ==
    server_state' # server_state => server_state'.tag # server_state.tag

C37_EndYieldsDisconnected ==
    (receive_eof \/ receive_error) =>
        /\ Len(emitted') = Len(emitted) + 1
        /\ emitted'[Len(emitted')].message = Message_Disconnected
        /\ server_state' = State_Disconnected

C37_SilentWhileDisconnected ==
    server_state = State_Disconnected => emitted' = emitted

C37_OneDisconnectedPerEnd ==
    Disconnections =
        Len(received) - (IF server_state.tag = "Connected" THEN 1 ELSE 0)

C37_AcceptsAgain ==
    (server_state = State_Disconnected /\ Len(received) < MaxConnections) =>
        ENABLED server_connect

C37_InOrder ==
    /\ \A j, k \in 1..Len(emitted) :
          j < k =>
              \/ emitted[j].stream < emitted[k].stream
              \/ /\ emitted[j].stream = emitted[k].stream
                 /\ emitted[j].message # Message_Disconnected
                 /\ \/ emitted[j].line < emitted[k].line
                    \/ /\ emitted[j].line = emitted[k].line
                       /\ emitted[k].message = Message_Disconnected
    /\ \A stream \in 1..Len(received) :
          (\A k \in 1..Len(received[stream]) : WellFormed(received[stream][k])) =>
              DecodedFrom(stream) = MessagesOf(received[stream])

\* C37: every change of the state of run leads from Disconnected to
\* Connected or back; the end of a stream, by EOF or by a read error,
\* yields one Message::Disconnected and leaves the state Disconnected, so
\* that as many were yielded as streams have ended, and a Disconnected
\* server can accept a stream again; no step from the state Disconnected
\* yields a message; and the messages of a stream are yielded in the order
\* in which their lines were read, nothing behind its Disconnected: lines
\* that all decode yield exactly their messages, in their order.
C37_ServerStateMachine ==
    /\ [][C37_Alternates]_vars
    /\ [][C37_EndYieldsDisconnected]_vars
    /\ [][C37_SilentWhileDisconnected]_vars
    /\ []C37_OneDisconnectedPerEnd
    /\ []C37_AcceptsAgain
    /\ []C37_InOrder

\* A first stream carried two lines and ended, a second one was accepted
\* and carried a line: four messages, the third Disconnected.
C37_Witness ==
    /\ Len(received) = 2
    /\ server_state = State_Connected(2)
    /\ Len(emitted) = 4
    /\ emitted[1].message = Message_Connected
    /\ emitted[2].message = Message_PerformanceReported(1)
    /\ emitted[3].message = Message_Disconnected
    /\ emitted[4].stream = 2
    /\ emitted[4].message = Message_Connected

C38_LineSkipped ==
    \A line \in PeerLines :
        (receive_line(line) /\ ~WellFormed(line)) =>
            /\ emitted' = emitted
            /\ server_state' = server_state

C38_WellFormedDecoded ==
    \A stream \in 1..Len(received) :
        DecodedFrom(stream) = MessagesOf(received[stream])

\* C38: reading a line that does not decode yields no message and leaves
\* the server connected, and the messages yielded for a stream are the
\* messages of the well-formed lines read from it, each of them, whatever
\* ill-formed lines were read before.
C38_ServerDecoding ==
    /\ [][C38_LineSkipped]_vars
    /\ []C38_WellFormedDecoded

====
